---- MODULE Spec2Model ----
(***************************************************************************)
(* Model of app-tempo-atendimento.py: the wait-time normaliser, the two    *)
(* cached workbook loaders, and the filter / aggregation passes of the two *)
(* dashboard tabs.                                                         *)
(*                                                                         *)
(* Strings are sequences of one-character strings, so that splitting and   *)
(* integer parsing are computed and not assumed.                           *)
(***************************************************************************)
EXTENDS Integers, Sequences, FiniteSets, TLC

VARIABLES
    time_str,      \* argument of the last convert_time_to_minutes call
    time_res,      \* its outcome
    files,         \* the workbook stored under each path
    cache,         \* st.cache_data entry of each loader, keyed by its path
    reads,         \* number of times each path was opened
    first_load,    \* the first table each loader produced (history)
    pc,            \* position of the script run
    load_res,      \* outcome of the last loader call of this run
    sel,           \* widget selections of this run
    df_filtrado,   \* df_filtrado / df_atend_filtrado
    metrics,       \* the scalar metrics of the current tab
    stats_setor,   \* stats_setor / stats_setor_atend, formatted
    script_exc,    \* exception that ended the script run, if any
    format_call    \* arguments and result of the last format_brl call

vars == <<time_str, time_res, files, cache, reads, first_load, pc, load_res,
          sel, df_filtrado, metrics, stats_setor, script_exc, format_call>>

(***************************************************************************)
(* Bounds                                                                  *)
(***************************************************************************)
\* characters of a wait-time text
MaxLen == 5
\* sheets of a workbook
MaxSheets == 2
\* rows of a workbook handed to a loader
MaxRows == 3
\* rows of the single-sheet workbooks behind the tabs
MaxViewRows == 2
\* rows of the workbooks that replace one another
MaxAppRows == 1
\* times a path is opened
MaxReads == 3
\* leading digits, trailing zeros and distance from a round number of a
\* formatted value; decimal places asked of format_brl
MaxMantissa == 12
MaxExp == 6
MaxOffset == 2
MaxCasas == 2

(***************************************************************************)
(* Strings                                                                 *)
(***************************************************************************)
Digits == {"0", "1", "5", "6"}
Chars == Digits \cup {":", "-", "x"}

SeqsUpTo(S, n) == UNION {[1..k -> S] : k \in 0..n}

DigitVal(c) == CASE c = "0" -> 0 [] c = "1" -> 1 [] c = "5" -> 5 [] c = "6" -> 6

\* str.split(":"): the pieces between the separators, one more than the
\* number of separators.
RECURSIVE Split(_)
Split(s) ==
    IF \A i \in 1..Len(s) : s[i] # ":"
    THEN <<s>>
    ELSE LET k == CHOOSE i \in 1..Len(s) :
                      s[i] = ":" /\ \A j \in 1..(i - 1) : s[j] # ":"
         IN  <<SubSeq(s, 1, k - 1)>> \o Split(SubSeq(s, k + 1, Len(s)))

\* int(text) accepts an optional sign followed by at least one digit
\* (within the alphabet Chars); anything else is a ValueError.
IsIntLiteral(p) ==
    LET body == IF Len(p) > 0 /\ p[1] = "-" THEN Tail(p) ELSE p
    IN  Len(body) > 0 /\ \A i \in 1..Len(body) : body[i] \in Digits

RECURSIVE DigitsValue(_)
DigitsValue(p) ==
    IF Len(p) = 0 THEN 0
    ELSE 10 * DigitsValue(SubSeq(p, 1, Len(p) - 1)) + DigitVal(p[Len(p)])

IntOf(p) == IF p[1] = "-" THEN 0 - DigitsValue(Tail(p)) ELSE DigitsValue(p)

(***************************************************************************)
(* Values a wait-time cell can hold: text, a time-of-day object, or NaN    *)
(* (an empty cell).                                                        *)
(***************************************************************************)
StrCell(s) == [t |-> "str", s |-> s, hour |-> 0, minute |-> 0]
TimeCell(h, m) == [t |-> "time", s |-> <<>>, hour |-> h, minute |-> m]
NaNCell == [t |-> "nan", s |-> <<>>, hour |-> 0, minute |-> 0]

Returned(v) == [kind |-> "ret", val |-> v, exc |-> "none"]
Raised(e) == [kind |-> "raise", val |-> 0, exc |-> e]
Pending == [kind |-> "pending", val |-> 0, exc |-> "none"]

\* getattr(x, "minute"): only time objects have it.
MinuteAttr(x) ==
    IF x.t = "time" THEN Returned(x.minute) ELSE Raised("AttributeError")

convert_time_to_minutes_swapped(x) ==
    IF x.t = "str"
    THEN LET parts == Split(x.s)
         IN  IF Len(parts) = 2
             THEN IF IsIntLiteral(parts[1]) /\ IsIntLiteral(parts[2])
                  THEN Returned(IntOf(parts[2]) * 60 + IntOf(parts[1]))
                  ELSE Returned(0)
             ELSE MinuteAttr(x)
    ELSE MinuteAttr(x)

\* Only ValueError is caught; an AttributeError leaves the function.
convert_time_to_minutes(x) ==
    IF x.t = "str"
    THEN LET parts == Split(x.s)
         IN  IF Len(parts) = 2
             THEN IF IsIntLiteral(parts[1]) /\ IsIntLiteral(parts[2])
                  THEN Returned(IntOf(parts[1]) * 60 + IntOf(parts[2]))
                  ELSE Returned(0)
             ELSE MinuteAttr(x)
    ELSE MinuteAttr(x)

(***************************************************************************)
(* Workbooks.  A file either does not exist or holds a sequence of sheets, *)
(* each a sequence of rows.  A text cell is a string or NA (empty cell); a *)
(* numeric cell is tagged: an integer, a float in tenths, text that is not *)
(* a number, or empty.                                                     *)
(***************************************************************************)
TEMPO_PATH == "Tempo_Atendimentos.xlsx"
ATEND_PATH == "Atendimentos.xlsx"
Paths == {TEMPO_PATH, ATEND_PATH}

NA == "NaN"

IntCell(v) == [t |-> "int", v |-> v]
FloatCell(tenths) == [t |-> "float10", v |-> tenths]
BadCell == [t |-> "badstr", v |-> 0]
EmptyCell == [t |-> "na", v |-> 0]

NoFile == [exists |-> FALSE, sheets |-> <<>>]
Workbook(sheets) == [exists |-> TRUE, sheets |-> sheets]

\* float -> int conversion truncates toward zero.
TruncTenths(v) == IF v >= 0 THEN v \div 10 ELSE 0 - ((0 - v) \div 10)

RECURSIVE Concat(_)
Concat(seqs) ==
    IF Len(seqs) = 0 THEN <<>> ELSE Head(seqs) \o Concat(Tail(seqs))

(***************************************************************************)
(* load_data_from_excel: concatenate the sheets, then apply the normaliser *)
(* to every TEMPO_MEDIO_ESPERA cell; the first cell whose conversion       *)
(* raises aborts the load with that exception.                             *)
(***************************************************************************)
WithMinutes(row) ==
    [CODIGO |-> row.CODIGO, SETOR |-> row.SETOR, ANO |-> row.ANO,
     MES |-> row.MES, QUANTIDADE |-> row.QUANTIDADE,
     TEMPO_MEDIO_ESPERA |-> row.TEMPO_MEDIO_ESPERA,
     TEMPO_MINUTOS |-> convert_time_to_minutes(row.TEMPO_MEDIO_ESPERA).val]

LoadOk(rows) == [kind |-> "ret", df |-> rows, error |-> FALSE, exc |-> "none"]
LoadRaise(e) == [kind |-> "raise", df |-> <<>>, error |-> FALSE, exc |-> e]
LoadError == [kind |-> "ret", df |-> <<>>, error |-> TRUE, exc |-> "none"]
NoLoad == [kind |-> "none", df |-> <<>>, error |-> FALSE, exc |-> "none"]

load_data_from_excel(file) ==
    IF ~file.exists THEN LoadRaise("FileNotFoundError")
    ELSE LET all == Concat(file.sheets)
             bad == {i \in 1..Len(all) :
                        convert_time_to_minutes(all[i].TEMPO_MEDIO_ESPERA).kind
                            = "raise"}
         IN  IF bad # {}
             THEN LoadRaise("AttributeError")
             ELSE LoadOk([i \in 1..Len(all) |-> WithMinutes(all[i])])

(***************************************************************************)
(* load_atendimentos_data                                                  *)
(***************************************************************************)
\* df.dropna(subset=['MES', 'ANO', 'TIPO'])
KeysPresent(row) == row.MES.t # "na" /\ row.ANO.t # "na" /\ row.TIPO # NA

KeysPresentWithSetor(row) == KeysPresent(row) /\ row.SETOR # NA

dropna_with_setor(sheet) == SelectSeq(sheet, KeysPresentWithSetor)

dropna_mes_ano(sheet) ==
    SelectSeq(sheet, LAMBDA row : row.MES.t # "na" /\ row.ANO.t # "na")

dropna(sheet) == SelectSeq(sheet, KeysPresent)

\* Series.astype(int): text that is not a number raises ValueError.
AsTypeIntRaises(cell) == cell.t = "badstr"
AsTypeInt(cell) == IF cell.t = "float10" THEN TruncTenths(cell.v) ELSE cell.v

\* pd.to_numeric(errors='coerce').fillna(0).astype(int)
coerce_qtde(cell) ==
    IF cell.t \in {"badstr", "na"} THEN 0
    ELSE IF cell.t = "float10" THEN TruncTenths(cell.v)
    ELSE cell.v

CleanRow(row) ==
    [SETOR |-> row.SETOR, TIPO |-> row.TIPO, ANO |-> AsTypeInt(row.ANO),
     MES |-> AsTypeInt(row.MES), QTDE |-> coerce_qtde(row.QTDE)]

SheetRaises(sheet) ==
    LET kept == dropna(sheet)
    IN  \E i \in 1..Len(kept) :
            AsTypeIntRaises(kept[i].MES) \/ AsTypeIntRaises(kept[i].ANO)

ProcessSheet(sheet) ==
    LET kept == dropna(sheet)
    IN  [i \in 1..Len(kept) |-> CleanRow(kept[i])]

\* The body of the try block: the frames appended to df_list so far, and
\* whether an exception stopped the loop.
RECURSIVE SheetLoop(_, _)
SheetLoop(sheets, df_list) ==
    IF Len(sheets) = 0 THEN [raised |-> FALSE, df_list |-> df_list]
    ELSE IF SheetRaises(Head(sheets))
         THEN [raised |-> TRUE, df_list |-> df_list]
         ELSE SheetLoop(Tail(sheets),
                        Append(df_list, ProcessSheet(Head(sheets))))

load_atendimentos_data_partial(file) ==
    IF ~file.exists THEN LoadError
    ELSE LET r == SheetLoop(file.sheets, <<>>)
         IN  IF r.raised
             THEN [kind |-> "ret", df |-> Concat(r.df_list), error |-> TRUE,
                   exc |-> "none"]
             ELSE LoadOk(Concat(r.df_list))

load_atendimentos_data(file) ==
    IF ~file.exists THEN LoadError
    ELSE LET r == SheetLoop(file.sheets, <<>>)
         IN  IF r.raised THEN LoadError ELSE LoadOk(Concat(r.df_list))

(***************************************************************************)
(* Numbers and their text.  A number is an integer, a float n/d, or NaN.   *)
(***************************************************************************)
Int_(n) == [t |-> "int", n |-> n, d |-> 1]
Float_(n, d) == [t |-> "float", n |-> n, d |-> d]
NaN == [t |-> "nan", n |-> 0, d |-> 1]

DigitChars == <<"0", "1", "2", "3", "4", "5", "6", "7", "8", "9">>

RECURSIVE Pow10(_)
Pow10(k) == IF k = 0 THEN 1 ELSE 10 * Pow10(k - 1)

\* str(n) of a non-negative integer
RECURSIVE NatToStr(_)
NatToStr(n) ==
    IF n < 10 THEN <<DigitChars[n + 1]>>
    ELSE NatToStr(n \div 10) \o <<DigitChars[(n % 10) + 1]>>

IntToStr(n) == IF n < 0 THEN <<"-">> \o NatToStr(0 - n) ELSE NatToStr(n)

\* str.zfill(width)
RECURSIVE ZFill(_, _)
ZFill(s, width) == IF Len(s) >= width THEN s ELSE ZFill(<<"0">> \o s, width)

\* a / b rounded to the nearest integer, ties to the even one (a >= 0, b > 0)
RoundHalfEven(a, b) ==
    LET q == a \div b
        r == a % b
    IN  IF 2 * r < b THEN q
        ELSE IF 2 * r > b THEN q + 1
        ELSE IF q % 2 = 0 THEN q ELSE q + 1

\* the ',' option of the format mini-language: a comma every three digits
RECURSIVE GroupThousands(_)
GroupThousands(ds) ==
    IF Len(ds) <= 3 THEN ds
    ELSE GroupThousands(SubSeq(ds, 1, Len(ds) - 3)) \o <<",">>
             \o SubSeq(ds, Len(ds) - 2, Len(ds))

\* f"{x:,.{casas}f}" of a number
FormatFixed(x, casas) ==
    IF x.t = "nan" THEN <<"n", "a", "n">>
    ELSE LET mag == IF x.n < 0 THEN 0 - x.n ELSE x.n
             q == RoundHalfEven(mag * Pow10(casas), x.d)
             ip == q \div Pow10(casas)
             fp == q % Pow10(casas)
             sign == IF x.n < 0 THEN <<"-">> ELSE <<>>
             frac == IF casas = 0 THEN <<>>
                     ELSE <<".">> \o ZFill(NatToStr(fp), casas)
         IN  sign \o GroupThousands(NatToStr(ip)) \o frac

\* str.replace(old, new) for one-character old and new
Replace(s, old, new) ==
    [i \in 1..Len(s) |-> IF s[i] = old THEN new ELSE s[i]]

\* values that are not numbers: text and None
Text_(s) == [t |-> "text", n |-> 0, d |-> 1, s |-> s]
None_ == [t |-> "none", n |-> 0, d |-> 1, s |-> <<>>]

\* the 'f' presentation type is refused by str (ValueError) and by None
\* (TypeError)
FormatRaises(numero) == numero.t \in {"text", "none"}

\* str(numero) of a value that is not a number
DefaultStr(numero) ==
    IF numero.t = "none" THEN <<"N", "o", "n", "e">> ELSE numero.s

format_brl_no_swap(numero, casas_decimais) ==
    IF FormatRaises(numero) THEN DefaultStr(numero)
    ELSE FormatFixed(numero, casas_decimais)

\* both branches of the if build the same text; the bare except returns
\* str(numero)
format_brl(numero, casas_decimais) ==
    IF FormatRaises(numero) THEN DefaultStr(numero)
    ELSE Replace(Replace(Replace(FormatFixed(numero, casas_decimais),
                                 ",", "X"), ".", ","), "X", ".")

\* DataFrame.round(2) of one value
Round2(x) ==
    IF x.t # "float" THEN x
    ELSE LET mag == IF x.n < 0 THEN 0 - x.n ELSE x.n
             q == RoundHalfEven(mag * 100, x.d)
         IN  Float_(IF x.n < 0 THEN 0 - q ELSE q, 100)

(***************************************************************************)
(* Reductions over a column (a sequence of integers)                       *)
(***************************************************************************)
Column(rows, name) == [i \in 1..Len(rows) |-> rows[i][name]]

RECURSIVE SumSeq(_)
SumSeq(xs) == IF Len(xs) = 0 THEN 0 ELSE Head(xs) + SumSeq(Tail(xs))

series_sum(xs) == Int_(SumSeq(xs))

series_mean_zero(xs) ==
    IF Len(xs) = 0 THEN Float_(0, 1) ELSE Float_(SumSeq(xs), Len(xs))

series_mean(xs) == IF Len(xs) = 0 THEN NaN ELSE Float_(SumSeq(xs), Len(xs))

series_max(xs) ==
    IF Len(xs) = 0 THEN NaN
    ELSE Int_(CHOOSE m \in {xs[i] : i \in 1..Len(xs)} :
                  \A i \in 1..Len(xs) : xs[i] <= m)

series_min(xs) ==
    IF Len(xs) = 0 THEN NaN
    ELSE Int_(CHOOSE m \in {xs[i] : i \in 1..Len(xs)} :
                  \A i \in 1..Len(xs) : xs[i] >= m)

(***************************************************************************)
(* Filters                                                                 *)
(***************************************************************************)
Todos == "Todos"
TodosNum == [all |-> TRUE, v |-> 0]
Num(v) == [all |-> FALSE, v |-> v]

NoSel == [setor |-> Todos, tipo |-> Todos, ano |-> TodosNum, mes |-> TodosNum]

\* Series == value on a text column: NaN equals nothing, itself included.
TextEq(cell, value) == cell # NA /\ cell = value

ColumnValues(rows, name) == {rows[i][name] : i \in 1..Len(rows)}

\* sorted(unique().tolist()) raises TypeError when NaN and text are compared.
SortRaises(values) == NA \in values /\ values # {NA}

TextOptions(values) == {Todos} \cup values
NumOptions(values) == {TodosNum} \cup {Num(v) : v \in values}

filter_setor(rows, s) ==
    IF s # Todos THEN SelectSeq(rows, LAMBDA r : TextEq(r.SETOR, s)) ELSE rows
filter_tipo_skipped(rows, t) == rows
filter_tipo(rows, t) ==
    IF t # Todos THEN SelectSeq(rows, LAMBDA r : TextEq(r.TIPO, t)) ELSE rows
filter_ano(rows, a) ==
    IF ~a.all THEN SelectSeq(rows, LAMBDA r : r.ANO = a.v) ELSE rows
filter_mes(rows, m) ==
    IF ~m.all THEN SelectSeq(rows, LAMBDA r : r.MES = m.v) ELSE rows

tab1_filters(rows, s) ==
    filter_mes(filter_ano(filter_setor(rows, s.setor), s.ano), s.mes)

tab2_filters(rows, s) ==
    filter_mes(filter_ano(filter_tipo(filter_setor(rows, s.setor), s.tipo),
                          s.ano), s.mes)

(***************************************************************************)
(* Metrics and summary tables                                              *)
(***************************************************************************)
NoMetrics ==
    [total |-> NaN, media |-> NaN, maximo |-> NaN, ativos |-> 0,
     total_txt |-> <<>>, media_txt |-> <<>>, maximo_txt |-> <<>>]

\* Series.nunique(): NaN is not counted.
NUnique(values) == Cardinality(values \ {NA})

tab1_metrics(rows) ==
    LET q == Column(rows, "QUANTIDADE")
        t == Column(rows, "TEMPO_MINUTOS")
    IN  [total |-> series_sum(q), media |-> series_mean(t),
         maximo |-> series_max(q),
         ativos |-> NUnique(ColumnValues(rows, "SETOR")),
         total_txt |-> format_brl(series_sum(q), 0),
         media_txt |-> <<>>,
         maximo_txt |-> format_brl(series_max(q), 0)]

tab2_metrics(rows) ==
    LET q == Column(rows, "QTDE")
    IN  [total |-> series_sum(q), media |-> series_mean(q),
         maximo |-> series_max(q),
         ativos |-> NUnique(ColumnValues(rows, "SETOR")),
         total_txt |-> format_brl(series_sum(q), 0),
         media_txt |-> format_brl(series_mean(q), 0),
         maximo_txt |-> format_brl(series_max(q), 0)]

\* groupby("SETOR"): one group per distinct sector, NaN keys left out.
GroupKeys(rows) == ColumnValues(rows, "SETOR") \ {NA}
GroupRows(rows, k) == SelectSeq(rows, LAMBDA r : r.SETOR = k)

Cell(x) == format_brl(Round2(x), 0)

stats_setor_tempo(rows) ==
    [k \in GroupKeys(rows) |->
        LET q == Column(GroupRows(rows, k), "QUANTIDADE")
            t == Column(GroupRows(rows, k), "TEMPO_MINUTOS")
        IN  [Total |-> Cell(series_sum(q)), Media |-> Cell(series_mean(q)),
             Maximo |-> Cell(series_max(q)),
             TempoMedio |-> Cell(series_mean(t)),
             TempoMax |-> Cell(series_max(t)),
             TempoMin |-> Cell(series_min(t))]]

stats_setor_atend(rows) ==
    [k \in GroupKeys(rows) |->
        LET q == Column(GroupRows(rows, k), "QTDE")
        IN  [Total |-> Cell(series_sum(q)), Media |-> Cell(series_mean(q)),
             Maximo |-> Cell(series_max(q)), Minimo |-> Cell(series_min(q))]]

\* ANO.astype(str) + "-" + MES.astype(str).str.zfill(2)
DataOf(r) == IntToStr(r.ANO) \o <<"-">> \o ZFill(IntToStr(r.MES), 2)

Tab1Shown(r) ==
    [CODIGO |-> r.CODIGO, SETOR |-> r.SETOR, ANO |-> IntToStr(r.ANO),
     MES |-> r.MES, QUANTIDADE |-> r.QUANTIDADE,
     TEMPO_MEDIO_ESPERA |-> r.TEMPO_MEDIO_ESPERA,
     TEMPO_MINUTOS |-> r.TEMPO_MINUTOS, DATA |-> DataOf(r)]

Tab2Shown(r) ==
    [SETOR |-> r.SETOR, TIPO |-> r.TIPO, ANO |-> r.ANO, MES |-> r.MES,
     QTDE |-> r.QTDE, DATA |-> DataOf(r)]

(***************************************************************************)
(* Inputs                                                                  *)
(***************************************************************************)
TimeObjects == {TimeCell(h, m) : h \in {0, 1}, m \in {0, 6}}

TempoRow(codigo, setor, ano, mes, quantidade, tempo) ==
    [CODIGO |-> codigo, SETOR |-> setor, ANO |-> ano, MES |-> mes,
     QUANTIDADE |-> quantidade, TEMPO_MEDIO_ESPERA |-> tempo]

AtendRow(setor, tipo, ano, mes, qtde) ==
    [SETOR |-> setor, TIPO |-> tipo, ANO |-> ano, MES |-> mes, QTDE |-> qtde]

\* wait-time cells as a workbook delivers them: well-formed text, text
\* without a separator, a time-formatted cell, an empty cell
TempoCells ==
    {StrCell(<<"0", ":", "0", "6">>), StrCell(<<"1", ":", "1", "5">>),
     StrCell(<<"x", ":", "5">>), StrCell(<<"6">>), TimeCell(1, 15), NaNCell}

TempoRows == {TempoRow(1, "A", 2024, 1, 3, c) : c \in TempoCells}

AtendRows ==
    {AtendRow("A", "X", IntCell(2024), IntCell(1), IntCell(3)),
     AtendRow("B", "Y", IntCell(2025), IntCell(2), FloatCell(0 - 27)),
     AtendRow(NA, "X", IntCell(2024), IntCell(1), EmptyCell),
     AtendRow("A", "X", IntCell(2024), EmptyCell, IntCell(4)),
     AtendRow("A", NA, IntCell(2024), IntCell(1), IntCell(5)),
     AtendRow("B", "Y", EmptyCell, BadCell, IntCell(6)),
     AtendRow("B", "Y", IntCell(2024), BadCell, IntCell(7)),
     AtendRow("A", "Y", FloatCell(20240), IntCell(2), BadCell)}

\* rows of well-formed volume workbooks, for the filter and aggregation pass
Tab2Rows ==
    {AtendRow("A", "X", IntCell(2024), IntCell(1), IntCell(3)),
     AtendRow("A", "Y", IntCell(2024), IntCell(2), IntCell(4)),
     AtendRow("B", "X", IntCell(2025), IntCell(1), IntCell(0)),
     AtendRow("B", "Y", IntCell(2024), IntCell(1), IntCell(2)),
     AtendRow(NA, "X", IntCell(2024), IntCell(1), IntCell(5)),
     AtendRow("A", NA, IntCell(2024), IntCell(1), IntCell(1))}

RunTempoRows ==
    {TempoRow(1, "A", 2024, 1, 3, StrCell(<<"0", ":", "0", "6">>)),
     TempoRow(2, "B", 2025, 2, 4, StrCell(<<"1", ":", "1", "5">>))}

AppTempoRows ==
    RunTempoRows \cup {TempoRow(3, "A", 2024, 2, 5, StrCell(<<"6">>))}

AppAtendRows ==
    <<AtendRow("A", "X", IntCell(2024), IntCell(1), IntCell(3)),
      AtendRow("B", "Y", IntCell(2025), IntCell(2), IntCell(4))>>

\* the ways to cut len rows into n consecutive sheets
Cuts(n, len) ==
    {c \in [1..(n - 1) -> 0..len] : \A i \in 1..(n - 2) : c[i] <= c[i + 1]}

SheetsOf(flat, c, n) ==
    [j \in 1..n |->
        SubSeq(flat, (IF j = 1 THEN 0 ELSE c[j - 1]) + 1,
               IF j = n THEN Len(flat) ELSE c[j])]

\* the single-sheet workbooks of at most total rows
OneSheetWorkbooks(rows, total) ==
    {Workbook(<<flat>>) : flat \in SeqsUpTo(rows, total)}

RunTempoFiles == OneSheetWorkbooks(RunTempoRows, MaxViewRows) \cup {NoFile}
Tab2Files == OneSheetWorkbooks(Tab2Rows, MaxViewRows)
AppTempoFiles == OneSheetWorkbooks(AppTempoRows, MaxAppRows) \cup {NoFile}
AppAtendFiles == {Workbook(<<AppAtendRows>>), NoFile}

(***************************************************************************)
(* st.cache_data: one entry per loader and argument                        *)
(***************************************************************************)
NoEntry == [has |-> FALSE, res |-> NoLoad]
Entry(res) == [has |-> TRUE, res |-> res]

NoFirst == [has |-> FALSE, df |-> <<>>, reads |-> 0]

CacheHit_never(path) == FALSE

CacheHit(path) == cache[path].has

LoaderBody(path, file) ==
    IF path = TEMPO_PATH THEN load_data_from_excel(file)
    ELSE load_atendimentos_data(file)

\* A call of a cached loader: a hit returns the stored value; a miss runs
\* the body on the file, and stores what it returns (not what it raises).
CachedCall(path) ==
    LET hit == CacheHit(path)
        res == IF hit THEN cache[path].res ELSE LoaderBody(path, files[path])
    IN  /\ hit \/ reads[path] < MaxReads
        /\ load_res' = [path |-> path, hit |-> hit, r |-> res]
        /\ reads' = IF hit THEN reads
                    ELSE [reads EXCEPT ![path] = reads[path] + 1]
        /\ cache' = IF ~hit /\ res.kind = "ret"
                    THEN [cache EXCEPT ![path] = Entry(res)]
                    ELSE cache
        /\ first_load' =
               IF ~first_load[path].has /\ res.kind = "ret"
               THEN [first_load EXCEPT
                         ![path] = [has |-> TRUE, df |-> res.df,
                                    reads |-> reads'[path]]]
               ELSE first_load

(***************************************************************************)
(* Actions                                                                 *)
(***************************************************************************)
ConvertCell ==
    /\ time_res = Pending
    /\ time_res' = convert_time_to_minutes(time_str)
    /\ UNCHANGED <<format_call, time_str, files, cache, reads, first_load, pc, load_res,
                   sel, df_filtrado, metrics, stats_setor, script_exc>>

NoFormatCall ==
    [numero |-> NaN, casas_decimais |-> 0, done |-> TRUE, out |-> <<>>]

\* lines 10-17
FormatBrl ==
    /\ ~format_call.done
    /\ format_call' =
           [format_call EXCEPT
               !.done = TRUE,
               !.out = format_brl(format_call.numero,
                                  format_call.casas_decimais)]
    /\ UNCHANGED <<time_str, time_res, files, cache, reads, first_load, pc,
                   load_res, sel, df_filtrado, metrics, stats_setor,
                   script_exc>>

\* line 109; FileNotFoundError is caught at line 338, anything else ends
\* the script run
CallLoadTempo ==
    /\ pc = "tab1_start"
    /\ CachedCall(TEMPO_PATH)
    /\ pc' = IF load_res'.r.kind = "ret" THEN "tab1_loaded"
             ELSE IF load_res'.r.exc = "FileNotFoundError" THEN "tab2_start"
             ELSE "ended"
    /\ script_exc' = IF load_res'.r.kind = "raise"
                        /\ load_res'.r.exc # "FileNotFoundError"
                     THEN load_res'.r.exc ELSE "none"
    /\ UNCHANGED <<format_call, time_str, time_res, files, sel, df_filtrado, metrics,
                   stats_setor>>

\* lines 115-160
Tab1Filter ==
    /\ pc = "tab1_loaded"
    /\ LET rows == load_res.r.df
           setores == ColumnValues(rows, "SETOR")
       IN  IF SortRaises(setores)
           THEN /\ pc' = "ended"
                /\ script_exc' = "TypeError"
                /\ UNCHANGED <<sel, df_filtrado, metrics>>
           ELSE \E s \in TextOptions(setores),
                   a \in NumOptions(ColumnValues(rows, "ANO")),
                   m \in NumOptions(ColumnValues(rows, "MES")) :
                    /\ sel' = [setor |-> s, tipo |-> Todos, ano |-> a,
                               mes |-> m]
                    /\ df_filtrado' = tab1_filters(rows, sel')
                    /\ metrics' = tab1_metrics(df_filtrado')
                    /\ pc' = "tab1_filtered"
                    /\ UNCHANGED script_exc
    /\ UNCHANGED <<format_call, time_str, time_res, files, cache, reads, first_load,
                   load_res, stats_setor>>

\* lines 216-336: the DATA column, ANO as text, the summary table
Tab1Display ==
    /\ pc = "tab1_filtered"
    /\ df_filtrado' = [i \in 1..Len(df_filtrado) |-> Tab1Shown(df_filtrado[i])]
    /\ stats_setor' = stats_setor_tempo(df_filtrado')
    /\ pc' = "tab2_start"
    /\ UNCHANGED <<format_call, time_str, time_res, files, cache, reads, first_load,
                   load_res, sel, metrics, script_exc>>

\* line 344; the tab's own variables are not set yet
CallLoadAtend ==
    /\ pc = "tab2_start"
    /\ CachedCall(ATEND_PATH)
    /\ pc' = "tab2_loaded"
    /\ sel' = NoSel
    /\ df_filtrado' = <<>>
    /\ metrics' = NoMetrics
    /\ stats_setor' = <<>>
    /\ UNCHANGED <<format_call, time_str, time_res, files, script_exc>>

\* line 346, else branch at line 569
Tab2Unavailable ==
    /\ pc = "tab2_loaded"
    /\ Len(load_res.r.df) = 0
    /\ pc' = "ended"
    /\ UNCHANGED <<format_call, time_str, time_res, files, cache, reads, first_load,
                   load_res, sel, df_filtrado, metrics, stats_setor,
                   script_exc>>

\* lines 351-406
Tab2Filter ==
    /\ pc = "tab2_loaded"
    /\ Len(load_res.r.df) > 0
    /\ LET rows == load_res.r.df
           setores == ColumnValues(rows, "SETOR")
       IN  IF SortRaises(setores)
           THEN /\ pc' = "ended"
                /\ script_exc' = "TypeError"
                /\ UNCHANGED <<sel, df_filtrado, metrics>>
           ELSE \E s \in TextOptions(setores),
                   t \in TextOptions(ColumnValues(rows, "TIPO")),
                   a \in NumOptions(ColumnValues(rows, "ANO")),
                   m \in NumOptions(ColumnValues(rows, "MES")) :
                    /\ sel' = [setor |-> s, tipo |-> t, ano |-> a, mes |-> m]
                    /\ df_filtrado' = tab2_filters(rows, sel')
                    /\ metrics' = tab2_metrics(df_filtrado')
                    /\ pc' = "tab2_filtered"
                    /\ UNCHANGED script_exc
    /\ UNCHANGED <<format_call, time_str, time_res, files, cache, reads, first_load,
                   load_res, stats_setor>>

\* lines 459-567
Tab2Display ==
    /\ pc = "tab2_filtered"
    /\ df_filtrado' = [i \in 1..Len(df_filtrado) |-> Tab2Shown(df_filtrado[i])]
    /\ stats_setor' = stats_setor_atend(df_filtrado')
    /\ pc' = "tab2_shown"
    /\ UNCHANGED <<format_call, time_str, time_res, files, cache, reads, first_load,
                   load_res, sel, metrics, script_exc>>

\* a widget changes: the whole script runs again from the top
Rerun ==
    /\ pc \in {"ended", "tab2_shown"}
    /\ pc' = "tab1_start"
    /\ load_res' = [path |-> "none", hit |-> FALSE, r |-> NoLoad]
    /\ sel' = NoSel
    /\ df_filtrado' = <<>>
    /\ metrics' = NoMetrics
    /\ stats_setor' = <<>>
    /\ script_exc' = "none"
    /\ UNCHANGED <<format_call, time_str, time_res, files, cache, reads, first_load>>

\* the environment replaces a source workbook
ReplaceFile ==
    /\ \E f \in AppTempoFiles :
           /\ f # files[TEMPO_PATH]
           /\ files' = [files EXCEPT ![TEMPO_PATH] = f]
    /\ UNCHANGED <<format_call, time_str, time_res, cache, reads, first_load, pc, load_res,
                   sel, df_filtrado, metrics, stats_setor, script_exc>>

(***************************************************************************)
(* Specifications                                                          *)
(***************************************************************************)
InitScript ==
    /\ cache = [p \in Paths |-> NoEntry]
    /\ reads = [p \in Paths |-> 0]
    /\ first_load = [p \in Paths |-> NoFirst]
    /\ load_res = [path |-> "none", hit |-> FALSE, r |-> NoLoad]
    /\ sel = NoSel
    /\ df_filtrado = <<>>
    /\ metrics = NoMetrics
    /\ stats_setor = <<>>
    /\ script_exc = "none"

InitRun ==
    /\ InitScript
    /\ format_call = NoFormatCall

FilesOf(tempo, atend) ==
    [p \in Paths |-> IF p = TEMPO_PATH THEN tempo ELSE atend]

\* the normaliser alone, on every text of up to MaxLen characters, on time
\* objects and on an empty cell
InitTime ==
    /\ \/ \E k \in 0..MaxLen : \E s \in [1..k -> Chars] : time_str = StrCell(s)
       \/ time_str \in TimeObjects \cup {NaNCell}
    /\ time_res = Pending
    /\ files = FilesOf(NoFile, NoFile)
    /\ pc = "ended"
    /\ InitRun

NextTime == ConvertCell

SpecTime == InitTime /\ [][NextTime]_vars

InitFiles(tempos, atends) ==
    /\ time_str = NaNCell
    /\ time_res = Pending
    /\ files \in {FilesOf(t, a) : t \in tempos, a \in atends}
    /\ pc = "tab1_start"
    /\ InitRun

\* the workbook under path is missing, or has one to MaxSheets sheets
\* holding at most MaxRows rows; the other path has no file
InitLoader(path, rows) ==
    /\ time_str = NaNCell
    /\ time_res = Pending
    /\ \/ files = FilesOf(NoFile, NoFile)
       \/ \E n \in 1..MaxSheets : \E k \in 0..MaxRows :
              \E flat \in [1..k -> rows] : \E c \in Cuts(n, k) :
                  files = [p \in Paths |->
                              IF p = path THEN Workbook(SheetsOf(flat, c, n))
                              ELSE NoFile]
    /\ pc = "tab1_start"
    /\ InitRun

\* the wait-time loader
InitTempo == InitLoader(TEMPO_PATH, TempoRows)

NextTempo == CallLoadTempo

SpecTempo == InitTempo /\ [][NextTempo]_vars

\* the volume loader, the wait-time workbook missing
InitAtend == InitLoader(ATEND_PATH, AtendRows)

NextAtend == CallLoadTempo \/ CallLoadAtend

SpecAtend == InitAtend /\ [][NextAtend]_vars

\* format_brl alone.  Numbers lie within MaxOffset of m * 10^e; floats
\* have a power of two as denominator, so that they are the values the
\* program holds and a tie is a tie.  The more decimals are asked, the
\* fewer trailing zeros, so that value * 10^casas stays below 2^31.
NumberInputs(casas) ==
    LET mags == {m * Pow10(e) + j : m \in 0..MaxMantissa,
                                    e \in 0..(MaxExp - casas),
                                    j \in (0 - MaxOffset)..MaxOffset}
        nums == mags \cup {0 - k : k \in mags} \cup {1234567, 2469}
    IN  {Int_(n) : n \in nums}
            \cup {Float_(n, d) : n \in nums, d \in {1, 2, 4, 8}}

OtherInputs ==
    {NaN, None_, Text_(<<>>), Text_(<<"a", "b", "c">>),
     Text_(<<"1", "2", "3", "4">>), Text_(<<"1", ".", "5">>)}

InitFormat ==
    /\ time_str = NaNCell
    /\ time_res = Pending
    /\ files = FilesOf(NoFile, NoFile)
    /\ pc = "ended"
    /\ InitScript
    /\ \E c \in 0..MaxCasas : \E x \in NumberInputs(c) \cup OtherInputs :
           format_call = [numero |-> x, casas_decimais |-> c,
                          done |-> FALSE, out |-> <<>>]

NextFormat == FormatBrl

SpecFormat == InitFormat /\ [][NextFormat]_vars

\* one run of the script over both tabs
InitRunOnce == InitFiles(RunTempoFiles, Tab2Files)

NextRunOnce ==
    \/ CallLoadTempo
    \/ Tab1Filter
    \/ Tab1Display
    \/ CallLoadAtend
    \/ Tab2Unavailable
    \/ Tab2Filter
    \/ Tab2Display

SpecRun == InitRunOnce /\ [][NextRunOnce]_vars

\* the whole script, rerun on every widget change, while the wait-time
\* workbook is replaced underneath it
Init == InitFiles(AppTempoFiles, AppAtendFiles)

Next ==
    \/ CallLoadTempo
    \/ Tab1Filter
    \/ Tab1Display
    \/ CallLoadAtend
    \/ Tab2Unavailable
    \/ Tab2Filter
    \/ Tab2Display
    \/ Rerun
    \/ ReplaceFile

Spec == Init /\ [][Next]_vars

(***************************************************************************)
(* Properties of the normaliser (SpecTime)                                 *)
(***************************************************************************)
Colons(s) == {i \in 1..Len(s) : s[i] = ":"}

AllDigits(p) == Len(p) > 0 /\ \A i \in 1..Len(p) : p[i] \in Digits

\* an integer literal: digits, with an optional leading sign
IntText(p) ==
    AllDigits(p) \/ (Len(p) > 1 /\ p[1] = "-" /\ AllDigits(Tail(p)))

\* positional value of a digit string
RECURSIVE PlaceValue(_)
PlaceValue(p) ==
    IF Len(p) = 0 THEN 0
    ELSE DigitVal(Head(p)) * Pow10(Len(p) - 1) + PlaceValue(Tail(p))

SignedValue(p) ==
    IF p[1] = "-" THEN 0 - PlaceValue(Tail(p)) ELSE PlaceValue(p)

\* text made of two integer parts around a single ':'
TwoIntParts(s) ==
    /\ Cardinality(Colons(s)) = 1
    /\ LET k == CHOOSE i \in Colons(s) : TRUE
       IN  IntText(SubSeq(s, 1, k - 1)) /\ IntText(SubSeq(s, k + 1, Len(s)))

HoursPart(s) == SubSeq(s, 1, (CHOOSE i \in Colons(s) : TRUE) - 1)
MinutesPart(s) == SubSeq(s, (CHOOSE i \in Colons(s) : TRUE) + 1, Len(s))

\* C2: every malformed wait-time text (not two integer parts around one
\* ':') converts to 0 and no exception leaves convert_time_to_minutes.
C2_MalformedTextGivesZero ==
    (time_res # Pending /\ time_str.t = "str" /\ ~TwoIntParts(time_str.s))
        => time_res = Returned(0)

\* C3: text of two integer parts h and m around one ':' converts to
\* h*60+m; "0:06" gives 6, "1:15" gives 75 and "00:00" gives 0.
C3_HoursTimesSixtyPlusMinutes ==
    (time_res # Pending /\ time_str.t = "str" /\ TwoIntParts(time_str.s))
        => /\ time_res = Returned(SignedValue(HoursPart(time_str.s)) * 60
                                      + SignedValue(MinutesPart(time_str.s)))
           /\ time_str.s = <<"0", ":", "0", "6">> => time_res.val = 6
           /\ time_str.s = <<"1", ":", "1", "5">> => time_res.val = 75
           /\ time_str.s = <<"0", "0", ":", "0", "0">> => time_res.val = 0

C3_Witness ==
    /\ time_str = StrCell(<<"1", ":", "1", "5">>)
    /\ time_res = Returned(75)

(***************************************************************************)
(* Properties of the volume loader (SpecAtend)                             *)
(***************************************************************************)
AtendLoaded == load_res.path = ATEND_PATH

AtendSucceeded == AtendLoaded /\ load_res.r.kind = "ret" /\ ~load_res.r.error

AllThreeKeys(row) == row.MES.t # "na" /\ row.ANO.t # "na" /\ row.TIPO # NA

\* a sheet whose type conversion raises: a surviving row holds text that
\* is not a number in MES or ANO
SheetFails(sheet) ==
    \E i \in 1..Len(sheet) :
        AllThreeKeys(sheet[i])
            /\ (sheet[i].MES.t = "badstr" \/ sheet[i].ANO.t = "badstr")

LoadFails(file) ==
    ~file.exists \/ \E j \in 1..Len(file.sheets) : SheetFails(file.sheets[j])

\* C1: load_atendimentos_data never raises; when the workbook cannot be
\* opened or a sheet's processing raises, it reports an error and returns
\* an empty table, rows of earlier sheets included.
C1_FailureGivesEmptyTableAndError ==
    AtendLoaded =>
        /\ load_res.r.kind = "ret"
        /\ LoadFails(files[ATEND_PATH])
               => (load_res.r.error /\ Len(load_res.r.df) = 0)

C1_Witness ==
    /\ AtendLoaded
    /\ load_res.r.error
    /\ Len(files[ATEND_PATH].sheets) = 2
    /\ ~SheetFails(files[ATEND_PATH].sheets[1])
    /\ \E i \in 1..Len(files[ATEND_PATH].sheets[1]) :
           AllThreeKeys(files[ATEND_PATH].sheets[1][i])
    /\ SheetFails(files[ATEND_PATH].sheets[2])

CellInt(cell) == IF cell.t = "float10" THEN TruncTenths(cell.v) ELSE cell.v

\* the rows of the whole workbook, in sheet order, that have all three keys
KeptRows(file) == SelectSeq(Concat(file.sheets), AllThreeKeys)

\* C4: a successful load returns exactly the rows having MES, ANO and TIPO,
\* in sheet order and in the order of each sheet.
C4_ResultIsRowsWithAllThreeKeys ==
    AtendSucceeded =>
        LET kept == KeptRows(files[ATEND_PATH])
            out == load_res.r.df
        IN  /\ Len(out) = Len(kept)
            /\ \A i \in 1..Len(kept) :
                   /\ out[i].SETOR = kept[i].SETOR
                   /\ out[i].TIPO = kept[i].TIPO
                   /\ out[i].ANO = CellInt(kept[i].ANO)
                   /\ out[i].MES = CellInt(kept[i].MES)

C4_Witness ==
    /\ AtendSucceeded
    /\ Len(files[ATEND_PATH].sheets) = 2
    /\ Len(load_res.r.df) >= 2
    /\ Len(load_res.r.df) < Len(Concat(files[ATEND_PATH].sheets))
    /\ load_res.r.df[1].TIPO # load_res.r.df[2].TIPO

\* C5 as stated: no row of the returned table has a missing SETOR.
C5_NoRowWithoutSetor ==
    AtendLoaded =>
        \A i \in 1..Len(load_res.r.df) : load_res.r.df[i].SETOR # NA

\* C5 amended: SETOR plays no part in the drop rule; the rows without
\* SETOR in the returned table are those of the workbook that have MES,
\* ANO and TIPO.
C5_SetorIsNotADropKey ==
    AtendSucceeded =>
        LET all == Concat(files[ATEND_PATH].sheets)
            out == load_res.r.df
        IN  Cardinality({i \in 1..Len(out) : out[i].SETOR = NA})
                = Cardinality({i \in 1..Len(all) :
                                   all[i].SETOR = NA /\ AllThreeKeys(all[i])})

C5_Witness ==
    /\ AtendSucceeded
    /\ \E i \in 1..Len(load_res.r.df) : load_res.r.df[i].SETOR = NA
    /\ Len(load_res.r.df) < Len(Concat(files[ATEND_PATH].sheets))

\* C6: every QTDE of the returned table is a non-negative integer, and a
\* QTDE that is not a number comes out as 0.
C6_QtdeNonNegative ==
    AtendSucceeded =>
        LET kept == KeptRows(files[ATEND_PATH])
            out == load_res.r.df
        IN  \A i \in 1..Len(out) :
                /\ out[i].QTDE \in Nat
                /\ (i <= Len(kept) /\ kept[i].QTDE.t = "badstr")
                       => out[i].QTDE = 0

(***************************************************************************)
(* Properties of the wait-time loader (SpecTempo)                          *)
(***************************************************************************)
TempoLoaded == load_res.path = TEMPO_PATH

\* C10: a workbook of N sheets of R rows each, its wait times held as
\* text, loads as N x R rows, in sheet order and row order, each with
\* TEMPO_MINUTOS the conversion of its TEMPO_MEDIO_ESPERA.
C10_AllRowsLoadedAndNormalised ==
    (TempoLoaded /\ files[TEMPO_PATH].exists) =>
        LET sheets == files[TEMPO_PATH].sheets
            N == Len(sheets)
            R == Len(sheets[1])
            out == load_res.r.df
            text == \A j \in 1..N : \A i \in 1..Len(sheets[j]) :
                        sheets[j][i].TEMPO_MEDIO_ESPERA.t = "str"
        IN  (text /\ \A j \in 1..N : Len(sheets[j]) = R) =>
                /\ load_res.r.kind = "ret"
                /\ Len(out) = N * R
                /\ \A j \in 1..N : \A i \in 1..R :
                       LET o == out[(j - 1) * R + i]
                           c == convert_time_to_minutes(
                                    sheets[j][i].TEMPO_MEDIO_ESPERA)
                       IN  /\ o.TEMPO_MEDIO_ESPERA
                                  = sheets[j][i].TEMPO_MEDIO_ESPERA
                           /\ c.kind = "ret"
                           /\ o.TEMPO_MINUTOS = c.val

(***************************************************************************)
(* Properties of the filter and aggregation pass (SpecRun)                 *)
(***************************************************************************)
\* a row passes when it equals every filter that is not the wildcard; an
\* empty text cell equals nothing
PassesText(cell, choice) == choice = Todos \/ (cell # NA /\ cell = choice)
PassesNum(value, choice) == choice.all \/ value = choice.v

Passes(r) ==
    /\ PassesText(r.SETOR, sel.setor)
    /\ PassesNum(r.ANO, sel.ano)
    /\ PassesNum(r.MES, sel.mes)
    /\ pc = "tab2_filtered" => PassesText(r.TIPO, sel.tipo)

\* C7: the filtered table is exactly the rows of the loaded table that
\* equal every non-wildcard filter, in their order and unchanged; with
\* the wildcard everywhere it is the loaded table.
C7_FilteredIsMatchingRowsInOrder ==
    pc \in {"tab1_filtered", "tab2_filtered"} =>
        /\ df_filtrado = SelectSeq(load_res.r.df, Passes)
        /\ sel = NoSel => df_filtrado = load_res.r.df

C7_Witness ==
    /\ pc = "tab2_filtered"
    /\ sel.setor # Todos
    /\ sel.tipo # Todos
    /\ Len(df_filtrado) = 1
    /\ Len(load_res.r.df) = 2

IsDigit(c) == \E k \in 1..10 : DigitChars[k] = c

\* text that shows no number
Placeholder(txt) == Len(txt) > 0 /\ \A i \in 1..Len(txt) : ~IsDigit(txt[i])

Tab2Filtered == pc \in {"tab2_filtered", "tab2_shown"}

\* C8: over an empty filtered table the sum is 0, the mean and the
\* maximum are shown as a placeholder that is not a number, and the
\* summary table by sector has no group, so none of its cells shows 0.
C8_EmptySelectionShowsPlaceholders ==
    (Tab2Filtered /\ Len(df_filtrado) = 0) =>
        /\ metrics.total = Int_(0)
        /\ metrics.total_txt = <<"0">>
        /\ metrics.media.t = "nan" /\ Placeholder(metrics.media_txt)
        /\ metrics.maximo.t = "nan" /\ Placeholder(metrics.maximo_txt)
        /\ metrics.ativos = 0
        /\ pc = "tab2_shown" => DOMAIN stats_setor = {}

C8_Witness ==
    /\ pc = "tab2_shown"
    /\ Len(df_filtrado) = 0
    /\ Len(load_res.r.df) = 2
    /\ metrics.media_txt = <<"n", "a", "n">>

(***************************************************************************)
(* Properties of the cached tables (Spec)                                  *)
(***************************************************************************)
\* C9: once a loader has produced a table for its path, the file is not
\* opened again, the stored table stays the one first produced, and every
\* later call returns it, whatever the filters did to their views and
\* whatever the file has become.
C9_LoadedTableIsReadOnceAndFixed ==
    \A p \in Paths :
        first_load[p].has =>
            /\ cache[p].has
            /\ cache[p].res.df = first_load[p].df
            /\ reads[p] = first_load[p].reads
            /\ (load_res.path = p /\ load_res.r.kind = "ret")
                   => load_res.r.df = first_load[p].df

C9_Witness ==
    /\ pc = "tab2_start"
    /\ load_res.path = TEMPO_PATH
    /\ load_res.hit
    /\ Len(df_filtrado) > 0
    /\ sel.setor # Todos
    /\ load_data_from_excel(files[TEMPO_PATH]).df # load_res.r.df

(***************************************************************************)
(* Properties of format_brl (SpecFormat)                                   *)
(***************************************************************************)
DigitOf(c) == CHOOSE k \in 0..9 : DigitChars[k + 1] = c

\* the number written by a text of digits, separators left out
RECURSIVE DigitsNumber(_)
DigitsNumber(txt) ==
    IF Len(txt) = 0 THEN 0
    ELSE IF IsDigit(txt[Len(txt)])
         THEN 10 * DigitsNumber(SubSeq(txt, 1, Len(txt) - 1))
                  + DigitOf(txt[Len(txt)])
         ELSE DigitsNumber(SubSeq(txt, 1, Len(txt) - 1))

\* digits in groups of three from the right, a '.' between the groups
GroupedByDots(txt) ==
    /\ Len(txt) > 0
    /\ Len(txt) % 4 # 0
    /\ \A i \in 1..Len(txt) :
           IF (Len(txt) - i + 1) % 4 = 0 THEN txt[i] = "." ELSE IsDigit(txt[i])
    /\ Len(txt) > 1 => txt[1] # "0"

\* txt writes x rounded to casas decimals in the pt-BR way
BrlTextOf(txt, x, casas) ==
    LET neg == Len(txt) > 0 /\ txt[1] = "-"
        body == IF neg THEN Tail(txt) ELSE txt
        cut == IF casas = 0 THEN Len(body) ELSE Len(body) - casas - 1
        ip == SubSeq(body, 1, cut)
        fp == SubSeq(body, cut + 2, Len(body))
        mag == IF x.n < 0 THEN 0 - x.n ELSE x.n
        q == DigitsNumber(ip) * Pow10(casas) + DigitsNumber(fp)
        err == q * x.d - mag * Pow10(casas)
    IN  /\ neg <=> x.n < 0
        /\ cut >= 1
        /\ GroupedByDots(ip)
        /\ casas > 0 => /\ body[cut + 1] = ","
                        /\ Len(fp) = casas
                        /\ \A i \in 1..Len(fp) : IsDigit(fp[i])
        /\ 2 * err <= x.d
        /\ 2 * err >= 0 - x.d

\* C11: format_brl writes a number rounded to the asked decimals, '.'
\* between the groups of three integer digits and ',' before the decimals
\* (1234567 -> "1.234.567", 1234.5 with one decimal -> "1.234,5"); a value
\* that is not a number comes back in its default string form.
C11_BrazilianNumberText ==
    format_call.done =>
        LET x == format_call.numero
            c == format_call.casas_decimais
            out == format_call.out
        IN  /\ x.t \in {"int", "float"} => BrlTextOf(out, x, c)
            /\ (x = Int_(1234567) /\ c = 0)
                   => out = <<"1", ".", "2", "3", "4", ".", "5", "6", "7">>
            /\ (x = Float_(2469, 2) /\ c = 1)
                   => out = <<"1", ".", "2", "3", "4", ",", "5">>
            /\ x.t = "text" => out = x.s
            /\ x.t = "none" => out = <<"N", "o", "n", "e">>
            /\ x.t = "nan" => out = <<"n", "a", "n">>

C11_Witness ==
    /\ format_call.done
    /\ format_call.numero = Float_(2469, 2)
    /\ format_call.casas_decimais = 1
    /\ format_call.out = <<"1", ".", "2", "3", "4", ",", "5">>

====
